---- MODULE Spec2Model ----
(***************************************************************************)
(* Model of esp::gfx::Simulator (Simulator.cpp): reconfigure / reset, the  *)
(* scene-graph accessors, SimulatorConfiguration equality and the physics  *)
(* facade addressed by (objectID, sceneID).                                *)
(*                                                                         *)
(* Pointers (shared_ptr / unique_ptr members) are sequences of length at   *)
(* most one: Null is the empty sequence, Ptr(v) a pointer to v.            *)
(* File paths are sequences of tokens, the last token being the extension  *)
(* when the path has one: "apt_semantic.ply" is <<"apt","_semantic",".ply">>.*)
(***************************************************************************)
EXTENDS Integers, Sequences, FiniteSets, TLC

\* ---------------------------------------------------------------- bounds
MaxGraphs == 3
MaxObjects == 1
MaxTime == 1
NumLibraryObjects == 1

\* ------------------------------------------------------------- constants
ID_UNDEFINED == -1
NO_TIME == 0

Null == << >>
Ptr(v) == << v >>
Deref(p) == p[1]

Front(s) == SubSeq(s, 1, Len(s) - 1)

\* ------------------------------------------------------- value universes
ZeroVec == << 0, 0, 0 >>
Vecs == { << 1, 0, 0 >> }
IdQuat == << 0, 0, 0, 1 >>
Quats == { << 1, 0, 0, 0 >> }
IdMatrix == [rot |-> IdQuat, trans |-> ZeroVec]
Matrices == { [rot |-> << 1, 0, 0, 0 >>, trans |-> << 1, 0, 0 >>] }
RelPositions == { ZeroVec }
Forces == { << 1, 0, 0 >> }
Dts == { 1, 2 }
Seeds == { 0, 1 }
ObjIds == 0 .. (MaxObjects - 1)
ObjIdArgs == 0 .. MaxObjects
SceneIdArgs == { -1, 0, MaxGraphs - 1, MaxGraphs }
LibIndexArgs == 0 .. NumLibraryObjects

\* ------------------------------------------------------------ file paths
Exts == { ".glb", ".ply", ".json", ".house" }
NoPath == << >>
HasExt(p) == Len(p) > 0 /\ p[Len(p)] \in Exts
changeExtension(p, e) == IF HasExt(p) THEN Front(p) \o << e >> ELSE p \o << e >>
removeExtension(p) == IF HasExt(p) THEN Front(p) ELSE p
EndsWith(p, suffix) ==
    /\ Len(p) >= Len(suffix)
    /\ SubSeq(p, Len(p) - Len(suffix) + 1, Len(p)) = suffix

fromPath(p) ==
    IF EndsWith(p, << "_semantic", ".ply" >>) THEN "INSTANCE_MESH"
    ELSE IF EndsWith(p, << "mesh", ".ply" >>) THEN "FRL_INSTANCE_MESH"
    ELSE IF EndsWith(p, << "house", ".json" >>) THEN "SUNCG_SCENE"
    ELSE IF EndsWith(p, << ".glb" >>) THEN "MP3D_MESH"
    ELSE "UNKNOWN"

\* -------------------------------------------------------- configurations
NoFilepaths == [mesh |-> NoPath, house |-> NoPath]
DefaultScene == [id |-> << "default" >>, filepaths |-> NoFilepaths]
Scenes ==
    { DefaultScene,
      [id |-> << "apt", ".glb" >>, filepaths |-> NoFilepaths],
      [id |-> << "apt", "_semantic", ".ply" >>, filepaths |-> NoFilepaths],
      [id |-> << "house", ".json" >>, filepaths |-> NoFilepaths],
      [id |-> << "mesh", ".ply" >>, filepaths |-> NoFilepaths],
      [id |-> << "van" >>,
       filepaths |-> [mesh |-> << "van", ".glb" >>,
                      house |-> << "annot", ".house" >>]] }

DefaultCfg ==
    [scene |-> DefaultScene,
     defaultAgentId |-> 0,
     defaultCameraUuid |-> "rgba_camera",
     gpuDeviceId |-> 0,
     width |-> 640,
     height |-> 480,
     compressTextures |-> FALSE,
     createRenderer |-> TRUE,
     enablePhysics |-> FALSE,
     physicsConfigFile |-> "default.phys_scene_config.json"]

\* DefaultCfg with one of the fields other than scene and flags changed
Variants ==
    { [DefaultCfg EXCEPT !.defaultAgentId = 1],
      [DefaultCfg EXCEPT !.gpuDeviceId = 1],
      [DefaultCfg EXCEPT !.width = 320],
      [DefaultCfg EXCEPT !.height = 240] }

AptScene == [id |-> << "apt", ".glb" >>, filepaths |-> NoFilepaths]

\* the configurations the caller passes: the default one, alone or with one
\* field changed, every scene with a renderer and without physics, and one
\* scene with every combination of the createRenderer / enablePhysics flags
Configs ==
    Variants \cup
    { [DefaultCfg EXCEPT !.createRenderer = FALSE] } \cup
    { [DefaultCfg EXCEPT !.scene = sc] : sc \in Scenes } \cup
    { [DefaultCfg EXCEPT !.scene = AptScene, !.createRenderer = r,
                         !.enablePhysics = p] :
        r \in BOOLEAN, p \in BOOLEAN }

\* the configurations used where the physics facade is exercised
FacadeConfigs ==
    { [DefaultCfg EXCEPT !.createRenderer = FALSE],
      [DefaultCfg EXCEPT !.scene = AptScene, !.enablePhysics = TRUE] }

\* --------------------------------------------------------------- state
VARIABLES
    life,                    \* "new" before the constructor ran, "fresh" after it,
                             \* "used" once reconfigure was called again,
                             \* "dead" after a failed constructor or a failed CHECK
    config_,                 \* SimulatorConfiguration config_
    sceneManager_,           \* scene::SceneManager: the sequence of its graphs
    sceneID_,                \* std::vector<int> sceneID_
    activeSceneID_,
    activeSemanticSceneID_,
    context_,                \* unique_ptr<WindowlessContext>
    renderer_,               \* shared_ptr<Renderer>
    physicsManager_,         \* shared_ptr<PhysicsManager>
    semanticScene_,          \* shared_ptr<SemanticScene>
    random_,                 \* core::Random random_
    call,                    \* the last call made and what it did
    spec_,                   \* Sensor: SensorSpec::ptr spec_
    tgt_,                    \* Sensor: gfx::RenderTarget::uptr tgt_
    projectionMatrix,        \* the projection matrix given to the depth shader
    unprojection,            \* the Vector2 calculateDepthUnprojection returned
    depth                    \* the depth buffer unprojectDepth works on

vars ==
    << life, config_, sceneManager_, sceneID_, activeSceneID_,
       activeSemanticSceneID_, context_, renderer_, physicsManager_,
       semanticScene_, random_, call,
       spec_, tgt_, projectionMatrix, unprojection, depth >>

\* the members of a Sensor, and the data of the depth unprojection
sensorVars == << spec_, tgt_ >>
depthVars == << projectionMatrix, unprojection, depth >>

simVars ==
    << config_, sceneManager_, sceneID_, activeSceneID_, activeSemanticSceneID_,
       context_, renderer_, physicsManager_, semanticScene_, random_ >>

\* what a call is recorded with: its name and arguments, its result, the calls
\* it forwarded to the physics world and what reconfigure did on the way
\* (semIds: the ids it assigned to activeSemanticSceneID_, in order;
\*  found: the files for which its io::exists calls returned true;
\*  steps: the steps reconfigure went through, in the order it took them)
NoCall ==
    [op |-> "none", cfg |-> DefaultCfg, objectID |-> ID_UNDEFINED,
     sceneID |-> ID_UNDEFINED,
     arg |-> << >>, ret |-> << >>, threw |-> FALSE, fwd |-> << >>,
     loads |-> << >>, allocs |-> << >>, renderers |-> << >>, contexts |-> << >>,
     semIds |-> << >>, found |-> { }, steps |-> << >>,
     short |-> FALSE, semRebuilds |-> 0, mp3dLoads |-> 0, suncgLoads |-> 0, resets |-> 0,
     physResets |-> 0]

\* ------------------------------------------------- physics world (collaborator)
NoObject == [alive |-> FALSE, T |-> ZeroVec, R |-> IdQuat]
NewWorld == [objects |-> [o \in ObjIds |-> NoObject], worldTime |-> 0]

Exists(w, o) == o \in ObjIds /\ w.objects[o].alive
ExistingObjectIDs(w) == { o \in ObjIds : w.objects[o].alive }
FreeID(w) == CHOOSE o \in ObjIds : ~w.objects[o].alive /\
                 \A p \in ObjIds : ~w.objects[p].alive => o <= p

\* PhysicsManager::addObject(objectLibIndex, drawables): << world, new id >>
PhysAddObject(w, objectLibIndex, drawables) ==
    IF objectLibIndex >= 0 /\ objectLibIndex < NumLibraryObjects
       /\ ExistingObjectIDs(w) # ObjIds
    THEN << [w EXCEPT !.objects[FreeID(w)] =
                 [alive |-> TRUE, T |-> ZeroVec, R |-> IdQuat]],
            FreeID(w) >>
    ELSE << w, ID_UNDEFINED >>

PhysRemoveObject(w, o) ==
    IF Exists(w, o) THEN [w EXCEPT !.objects[o] = NoObject] ELSE w

PhysSetTranslation(w, o, t) ==
    IF Exists(w, o) THEN [w EXCEPT !.objects[o].T = t] ELSE w
PhysGetTranslation(w, o) ==
    IF Exists(w, o) THEN w.objects[o].T ELSE ZeroVec
PhysSetRotation(w, o, q) ==
    IF Exists(w, o) THEN [w EXCEPT !.objects[o].R = q] ELSE w
PhysGetRotation(w, o) ==
    IF Exists(w, o) THEN w.objects[o].R ELSE IdQuat
PhysSetTransformation(w, o, m) ==
    IF Exists(w, o)
    THEN [w EXCEPT !.objects[o].T = m.trans, !.objects[o].R = m.rot]
    ELSE w
PhysGetTransformation(w, o) ==
    IF Exists(w, o)
    THEN [rot |-> w.objects[o].R, trans |-> w.objects[o].T]
    ELSE IdMatrix
PhysStepPhysics(w, dt) == [w EXCEPT !.worldTime = @ + dt]
PhysGetWorldTime(w) == w.worldTime
\* PhysicsManager::reset(): "this does nothing yet"
PhysReset(w) == w

\* --------------------------------------------------- scene graph registry
\* a graph is recorded by whether a scene was loaded under its root node
NewGraph == [loaded |-> FALSE]

\* SceneManager::initSceneGraph(): << registry, id of the new graph >>
initSceneGraph(sm) == << Append(sm, NewGraph), Len(sm) >>
\* SceneManager::getSceneGraph(sceneID): defined for the ids issued
IsIssued(sm, id) == id >= 0 /\ id < Len(sm)
LoadInto(sm, id) == [sm EXCEPT ![id + 1].loaded = TRUE]

\* ------------------------------------------------ SimulatorConfiguration
\* operator== with the "== 0" after compare() forgotten: compare() is nonzero,
\* hence true, exactly when the two strings differ
ConfigEq_CompareNonZero(a, b) ==
    /\ a.scene = b.scene
    /\ a.defaultAgentId = b.defaultAgentId
    /\ a.defaultCameraUuid = b.defaultCameraUuid
    /\ a.compressTextures = b.compressTextures
    /\ a.createRenderer = b.createRenderer
    /\ a.enablePhysics = b.enablePhysics
    /\ a.physicsConfigFile # b.physicsConfigFile

\* operator==(SimulatorConfiguration, SimulatorConfiguration)
ConfigEq(a, b) ==
    /\ a.scene = b.scene
    /\ a.defaultAgentId = b.defaultAgentId
    /\ a.defaultCameraUuid = b.defaultCameraUuid
    /\ a.compressTextures = b.compressTextures
    /\ a.createRenderer = b.createRenderer
    /\ a.enablePhysics = b.enablePhysics
    /\ a.physicsConfigFile = b.physicsConfigFile

\* --------------------------------------------------- Simulator::reconfigure
SceneFilename(cfg) ==
    IF cfg.scene.filepaths.mesh # NoPath
    THEN cfg.scene.filepaths.mesh
    ELSE cfg.scene.id

HouseFilename(cfg) ==
    IF cfg.scene.filepaths.house # NoPath
    THEN cfg.scene.filepaths.house
    ELSE changeExtension(SceneFilename(cfg), ".house")

SemanticMeshFilename(houseFilename) ==
    removeExtension(houseFilename) \o << "_semantic", ".ply" >>

\* instance meshes and suncg houses contain their semantic annotations
HasEmbeddedSemantics(type) ==
    \/ type = "FRL_INSTANCE_MESH"
    \/ type = "SUNCG_SCENE"
    \/ type = "INSTANCE_MESH"

\* the files reconfigure(cfg) probes with io::exists
ProbedFiles(cfg) ==
    { HouseFilename(cfg), SemanticMeshFilename(HouseFilename(cfg)) }

\* Simulator::reset(): the physics world after it
ResetWorld(pm) == IF pm # Null THEN Ptr(PhysReset(Deref(pm))) ELSE pm
\* a reset that calls the physics world's reset whether or not one is bound
ResetCalls_Unguarded(pm) == 1
\* the number of PhysicsManager::reset calls it makes
ResetCalls(pm) == IF pm # Null THEN 1 ELSE 0

\* a short-circuit branch that returns without the reset
ReconfigureUnchanged_NoReset(name, cfg) ==
    /\ UNCHANGED simVars
    /\ call' = [NoCall EXCEPT !.op = name, !.cfg = cfg, !.short = TRUE]

\* the short-circuit branch: reset and return
ReconfigureUnchanged(name, cfg) ==
    /\ physicsManager_' = ResetWorld(physicsManager_)
    /\ UNCHANGED << config_, sceneManager_, sceneID_, activeSceneID_,
                    activeSemanticSceneID_, context_, renderer_,
                    semanticScene_, random_ >>
    /\ call' = [NoCall EXCEPT !.op = name, !.cfg = cfg, !.short = TRUE,
                              !.steps = << "reset" >>,
                              !.resets = 1,
                              !.physResets = ResetCalls(physicsManager_)]

\* the tail of reconfigure: rebuild the semantic scene, then reset
\* (sm, ids, sem, ctx, rnd, pm: the members as left by the steps before)
ReconfigureTail(name, cfg, fs, sm, ids, sem, ctx, rnd, pm, log) ==
    LET sceneFilename == SceneFilename(cfg)
        houseFilename == HouseFilename(cfg)
        type == fromPath(sceneFilename)
        mp3d == houseFilename \in fs
        suncg == type = "SUNCG_SCENE"
    IN  /\ config_' = cfg
        /\ sceneManager_' = sm
        /\ sceneID_' = ids
        /\ activeSceneID_' = ids[Len(sceneID_) + 1]
        /\ activeSemanticSceneID_' = sem
        /\ context_' = ctx
        /\ renderer_' = rnd
        /\ semanticScene_' =
               Ptr([mp3dHouse |-> IF mp3d THEN houseFilename ELSE NoPath,
                    suncgHouse |-> IF suncg THEN sceneFilename ELSE NoPath])
        /\ physicsManager_' = ResetWorld(pm)
        /\ UNCHANGED random_
        /\ call' = [log EXCEPT !.op = name, !.cfg = cfg,
                               !.found =
                                  IF ~mp3d THEN { }
                                  ELSE IF cfg.createRenderer
                                  THEN fs \cap ProbedFiles(cfg)
                                  ELSE { houseFilename },
                               !.steps =
                                  log.steps \o << "SemanticScene::create" >> \o
                                  (IF mp3d THEN << "loadMp3dHouse" >>
                                   ELSE << >>) \o
                                  (IF suncg THEN << "loadSuncgHouse" >>
                                   ELSE << >>) \o
                                  << "reset" >>,
                               !.semRebuilds = 1,
                               !.mp3dLoads = IF mp3d THEN 1 ELSE 0,
                               !.suncgLoads = IF suncg THEN 1 ELSE 0,
                               !.resets = 1,
                               !.physResets = ResetCalls(pm)]

\* a load that must not pass unnoticed: a missing failure check
LoadFailed_Ignored(loadSuccess) == FALSE

\* if (!loadSuccess) throw std::invalid_argument(...)
LoadFailed(loadSuccess) == ~loadSuccess

\* a failing reconfigure that undoes what it did before the failure
ReconfigureThrows_RolledBack(name, cfg, sm, ids, id, ctx, rnd, pm, log) ==
    /\ UNCHANGED simVars
    /\ call' = [log EXCEPT !.op = name, !.cfg = cfg, !.threw = TRUE]

\* throw std::invalid_argument("Cannot load: " + sceneFilename): the members
\* keep what the steps before the throw assigned
\* (sm, ids, id, ctx, rnd, pm: the members as left by those steps)
ReconfigureThrows(name, cfg, sm, ids, id, ctx, rnd, pm, log) ==
    /\ config_' = cfg
    /\ sceneManager_' = sm
    /\ sceneID_' = ids
    /\ activeSceneID_' = id
    /\ context_' = ctx
    /\ renderer_' = rnd
    /\ physicsManager_' = pm
    /\ UNCHANGED << activeSemanticSceneID_, semanticScene_, random_ >>
    /\ call' = [log EXCEPT !.op = name, !.cfg = cfg, !.threw = TRUE]

\* the new id put in front of the list of graph ids
push_back_AtFront(ids, id) == << id >> \o ids

\* a list of graph ids on which the new id is put twice
push_back_Twice(ids, id) == Append(Append(ids, id), id)

\* sceneID_.push_back(id)
push_back(ids, id) == Append(ids, id)

\* a context made anew by every reconfigure that requests a renderer
CreatesContext_Always(ctx) == TRUE

\* if (!context_)
CreatesContext(ctx) == ctx = Null

\* if (!context_) context_ = std::make_unique<WindowlessContext>(gpuDeviceId)
EnsureContext(ctx, gpuDeviceId) ==
    IF CreatesContext(ctx) THEN Ptr([gpuDeviceId |-> gpuDeviceId]) ELSE ctx

\* a semantic graph made for every house file, with or without a semantic mesh
WithSemanticMesh_HouseOnly(fs, houseFilename) == houseFilename \in fs

\* io::exists(houseFilename) and io::exists(semanticMeshFilename)
WithSemanticMesh(fs, houseFilename) ==
    /\ houseFilename \in fs
    /\ SemanticMeshFilename(houseFilename) \in fs

\* the branch taken when the configuration differs from the stored one
\*   fs          the files that exist
\*   loadOk      what loadScene returns for the primary scene
\*   semLoadOk   what loadScene returns for the semantic mesh
\*   physOnFail  whether a failing loadScene still bound a physics world
ReconfigureChanged(name, cfg, fs, loadOk, semLoadOk, physOnFail) ==
    LET sceneFilename == SceneFilename(cfg)
        houseFilename == HouseFilename(cfg)
        type == fromPath(sceneFilename)
        a1 == initSceneGraph(sceneManager_)
        id1 == a1[2]
        ids1 == push_back(sceneID_, id1)
        ctx == EnsureContext(context_, cfg.gpuDeviceId)
        rnd == Ptr([width |-> cfg.width, height |-> cfg.height])
        load1 == [asset |-> sceneFilename, physics |-> cfg.enablePhysics,
                  graph |-> id1, ok |-> loadOk]
        pm1 == IF cfg.enablePhysics /\ (loadOk \/ physOnFail)
               THEN Ptr(NewWorld)
               ELSE physicsManager_
        sm1 == IF loadOk THEN LoadInto(a1[1], id1) ELSE a1[1]
        semMeshFilename == SemanticMeshFilename(houseFilename)
        withSem == WithSemanticMesh(fs, houseFilename)
        a2 == initSceneGraph(sm1)
        id2 == a2[2]
        sm2 == IF ~withSem THEN sm1
               ELSE IF semLoadOk THEN LoadInto(a2[1], id2)
               ELSE a2[1]
        ids2 == IF withSem THEN push_back(ids1, id2) ELSE ids1
        load2 == [asset |-> semMeshFilename, physics |-> FALSE,
                  graph |-> id2, ok |-> semLoadOk]
        sem2 == IF HasEmbeddedSemantics(type) THEN id1
                ELSE IF withSem THEN id2
                ELSE activeSemanticSceneID_
        log0 == [NoCall EXCEPT !.allocs = << id1 >>,
                               !.steps = << "config_ = cfg", "initSceneGraph" >>]
        logR == [log0 EXCEPT
                   !.contexts = IF CreatesContext(context_)
                                THEN << cfg.gpuDeviceId >> ELSE << >>,
                   !.renderers = << Deref(rnd) >>,
                   !.steps = log0.steps \o
                             (IF CreatesContext(context_)
                              THEN << "WindowlessContext" >> ELSE << >>) \o
                             << "Renderer::create", "loadScene" >>,
                   !.loads = << load1 >>]
    IN  IF ~cfg.createRenderer
        THEN /\ cfg.enablePhysics \in BOOLEAN
             /\ ReconfigureTail(name, cfg, fs, a1[1], ids1,
                                activeSemanticSceneID_, context_, renderer_,
                                physicsManager_, log0)
        ELSE IF LoadFailed(loadOk)
        THEN ReconfigureThrows(name, cfg, sm1, ids1, id1, ctx, rnd, pm1, logR)
        ELSE ReconfigureTail(name, cfg, fs, sm2, ids2, sem2, ctx, rnd, pm1,
                 [logR EXCEPT
                    !.allocs = IF withSem THEN << id1, id2 >> ELSE << id1 >>,
                    !.steps = logR.steps \o
                              (IF withSem
                               THEN << "initSceneGraph", "loadScene" >>
                               ELSE << >>),
                    !.semIds = (IF withSem THEN << id2 >> ELSE << >>) \o
                               (IF HasEmbeddedSemantics(type)
                                THEN << id1 >> ELSE << >>),
                    !.loads = IF withSem THEN << load1, load2 >>
                              ELSE << load1 >>])

\* void Simulator::reconfigure(const SimulatorConfiguration& cfg)
reconfigure(name, cfg, fs, loadOk, semLoadOk, physOnFail) ==
    IF ConfigEq(cfg, config_)
    THEN ReconfigureUnchanged(name, cfg)
    ELSE ReconfigureChanged(name, cfg, fs, loadOk, semLoadOk, physOnFail)

SimInit ==
    /\ life = "new"
    /\ config_ = DefaultCfg
    /\ sceneManager_ = << >>
    /\ sceneID_ = << >>
    /\ activeSceneID_ = ID_UNDEFINED
    /\ activeSemanticSceneID_ = ID_UNDEFINED
    /\ context_ = Null
    /\ renderer_ = Null
    /\ physicsManager_ = Null
    /\ semanticScene_ = Null
    /\ random_ = 0
    /\ call = NoCall

\* no Sensor made, no depth buffer read
NoSensor == spec_ = Null /\ tgt_ = Null
NoDepth ==
    /\ projectionMatrix = << >>
    /\ unprojection = << >>
    /\ depth = << >>

Init == SimInit /\ NoSensor /\ NoDepth

Live == life \in { "fresh", "used" }

\* the outcomes the collaborators can give reconfigure(cfg): the primary load
\* fails (binding a physics world or not), or it succeeds with some of the
\* probed files present and the semantic-mesh load succeeding or not
ReconfigureAny(name, cfg) ==
    \/ \E physOnFail \in (IF cfg.enablePhysics THEN BOOLEAN ELSE { FALSE }) :
          reconfigure(name, cfg, { }, FALSE, TRUE, physOnFail)
    \/ \E fs \in SUBSET ProbedFiles(cfg) :
          \E semLoadOk \in (IF fs = ProbedFiles(cfg) THEN BOOLEAN ELSE { TRUE }) :
             reconfigure(name, cfg, fs, TRUE, semLoadOk, FALSE)

\* Simulator::Simulator(const SimulatorConfiguration& cfg)
Construct(cfgs) ==
    /\ life = "new"
    /\ \E cfg \in cfgs : ReconfigureAny("Simulator", cfg)
    /\ life' = IF call'.threw THEN "dead" ELSE "fresh"
    /\ UNCHANGED << sensorVars, depthVars >>

Reconfigure(cfgs) ==
    /\ Live
    /\ \E cfg \in cfgs :
         /\ ConfigEq(cfg, config_) \/ Len(sceneManager_) < MaxGraphs
         /\ ReconfigureAny("reconfigure", cfg)
    /\ Len(sceneManager_') <= MaxGraphs
    /\ life' = "used"
    /\ UNCHANGED << sensorVars, depthVars >>

\* a reset that frees the graphs made so far
Reset_FreesGraphs ==
    /\ Live
    /\ physicsManager_' = ResetWorld(physicsManager_)
    /\ sceneManager_' = << >>
    /\ sceneID_' = << >>
    /\ call' = [NoCall EXCEPT !.op = "reset", !.resets = 1,
                              !.physResets = ResetCalls(physicsManager_)]
    /\ UNCHANGED << life, config_, activeSceneID_, activeSemanticSceneID_,
                    context_, renderer_, semanticScene_, random_ >>
    /\ UNCHANGED << sensorVars, depthVars >>

\* void Simulator::reset()
Reset ==
    /\ Live
    /\ physicsManager_' = ResetWorld(physicsManager_)
    /\ call' = [NoCall EXCEPT !.op = "reset", !.resets = 1,
                              !.physResets = ResetCalls(physicsManager_)]
    /\ UNCHANGED << life, config_, sceneManager_, sceneID_, activeSceneID_,
                    activeSemanticSceneID_, context_, renderer_,
                    semanticScene_, random_ >>
    /\ UNCHANGED << sensorVars, depthVars >>

\* void Simulator::seed(uint32_t newSeed)
Seed ==
    /\ Live
    /\ \E newSeed \in Seeds :
         /\ random_' = newSeed
         /\ call' = [NoCall EXCEPT !.op = "seed", !.arg = << newSeed >>]
    /\ UNCHANGED << life, config_, sceneManager_, sceneID_, activeSceneID_,
                    activeSemanticSceneID_, context_, renderer_,
                    physicsManager_, semanticScene_ >>
    /\ UNCHANGED << sensorVars, depthVars >>

\* the accessor check with CHECK_GE left out
CheckFails_NoLowerBound(id) == ~(id < Len(sceneID_))

\* CHECK_GE(id, 0); CHECK_LT(id, sceneID_.size()): a failed CHECK aborts
CheckFails(id) == ~(id >= 0) \/ ~(id < Len(sceneID_))

\* the accessor body shared by the two getters below, for the id they read
GetGraph(name, id) ==
    /\ Live
    /\ IF CheckFails(id)
       THEN /\ call' = [NoCall EXCEPT !.op = name, !.sceneID = id,
                                      !.threw = TRUE]
            /\ life' = "dead"
       ELSE /\ call' = [NoCall EXCEPT
                          !.op = name, !.sceneID = id,
                          !.ret = IF IsIssued(sceneManager_, id)
                                  THEN << id, sceneManager_[id + 1] >>
                                  ELSE << "InvalidHandle" >>]
            /\ life' = life
    /\ UNCHANGED simVars
    /\ UNCHANGED << sensorVars, depthVars >>

\* scene::SceneGraph& Simulator::getActiveSceneGraph()
getActiveSceneGraph == GetGraph("getActiveSceneGraph", activeSceneID_)

\* scene::SceneGraph& Simulator::getActiveSemanticSceneGraph()
getActiveSemanticSceneGraph ==
    GetGraph("getActiveSemanticSceneGraph", activeSemanticSceneID_)

\* === Physics Simulator Functions ===
\* a frame that lets the semantic scene graph id fall back to undefined
FacadeFrame_ForgetsSemanticId ==
    /\ activeSemanticSceneID_' = ID_UNDEFINED
    /\ UNCHANGED << life, config_, sceneManager_, sceneID_, activeSceneID_,
                    context_, renderer_, semanticScene_, random_,
                    sensorVars, depthVars >>

\* what none of the functions below assigns
FacadeFrame ==
    UNCHANGED << life, config_, sceneManager_, sceneID_, activeSceneID_,
                 activeSemanticSceneID_, context_, renderer_, semanticScene_,
                 random_, sensorVars, depthVars >>

Forward(fn, objectID, args) == << [fn |-> fn, objectID |-> objectID, args |-> args] >>

\* addObject returning 0 instead of ID_UNDEFINED when nothing is forwarded
addObject_ReturnsZero(objectLibIndex, sceneID) ==
    /\ Live
    /\ IF physicsManager_ # Null /\ sceneID >= 0 /\ sceneID < Len(sceneID_)
       THEN LET r == PhysAddObject(Deref(physicsManager_), objectLibIndex,
                                   sceneID)
            IN  /\ physicsManager_' = Ptr(r[1])
                /\ call' = [NoCall EXCEPT
                              !.op = "addObject", !.sceneID = sceneID,
                              !.arg = << objectLibIndex >>,
                              !.threw = ~IsIssued(sceneManager_, sceneID),
                              !.fwd = Forward("addObject", ID_UNDEFINED,
                                              << objectLibIndex, sceneID >>),
                              !.ret = r[2]]
       ELSE /\ UNCHANGED physicsManager_
            /\ call' = [NoCall EXCEPT
                          !.op = "addObject", !.sceneID = sceneID,
                          !.arg = << objectLibIndex >>, !.ret = 0]
    /\ FacadeFrame

\* const int Simulator::addObject(const int objectLibIndex, const int sceneID)
addObject(objectLibIndex, sceneID) ==
    /\ Live
    /\ IF physicsManager_ # Null /\ sceneID >= 0 /\ sceneID < Len(sceneID_)
       THEN LET r == PhysAddObject(Deref(physicsManager_), objectLibIndex,
                                   sceneID)
            IN  /\ physicsManager_' = Ptr(r[1])
                /\ call' = [NoCall EXCEPT
                              !.op = "addObject", !.sceneID = sceneID,
                              !.arg = << objectLibIndex >>,
                              !.threw = ~IsIssued(sceneManager_, sceneID),
                              !.fwd = Forward("addObject", ID_UNDEFINED,
                                              << objectLibIndex, sceneID >>),
                              !.ret = r[2]]
       ELSE /\ UNCHANGED physicsManager_
            /\ call' = [NoCall EXCEPT
                          !.op = "addObject", !.sceneID = sceneID,
                          !.arg = << objectLibIndex >>, !.ret = ID_UNDEFINED]
    /\ FacadeFrame

\* getExistingObjectIDs with an off-by-one upper range check
getExistingObjectIDs_OffByOne(sceneID) ==
    /\ Live
    /\ IF physicsManager_ # Null /\ sceneID >= 0 /\ sceneID <= Len(sceneID_)
       THEN call' = [NoCall EXCEPT
                       !.op = "getExistingObjectIDs", !.sceneID = sceneID,
                       !.fwd = Forward("getExistingObjectIDs",
                                       ID_UNDEFINED, << >>),
                       !.ret = ExistingObjectIDs(Deref(physicsManager_))]
       ELSE call' = [NoCall EXCEPT
                       !.op = "getExistingObjectIDs", !.sceneID = sceneID,
                       !.ret = { }]
    /\ UNCHANGED physicsManager_
    /\ FacadeFrame

\* const std::vector<int> Simulator::getExistingObjectIDs(const int sceneID)
getExistingObjectIDs(sceneID) ==
    /\ Live
    /\ IF physicsManager_ # Null /\ sceneID >= 0 /\ sceneID < Len(sceneID_)
       THEN call' = [NoCall EXCEPT
                       !.op = "getExistingObjectIDs", !.sceneID = sceneID,
                       !.fwd = Forward("getExistingObjectIDs",
                                       ID_UNDEFINED, << >>),
                       !.ret = ExistingObjectIDs(Deref(physicsManager_))]
       ELSE call' = [NoCall EXCEPT
                       !.op = "getExistingObjectIDs", !.sceneID = sceneID,
                       !.ret = { }]
    /\ UNCHANGED physicsManager_
    /\ FacadeFrame

\* removeObject accepting only the active scene graph's id
removeObject_ActiveOnly(objectID, sceneID) ==
    /\ Live
    /\ IF physicsManager_ # Null /\ sceneID = activeSceneID_
       THEN /\ physicsManager_' =
                   Ptr(PhysRemoveObject(Deref(physicsManager_), objectID))
            /\ call' = [NoCall EXCEPT
                          !.op = "removeObject", !.objectID = objectID,
                          !.sceneID = sceneID,
                          !.fwd = Forward("removeObject", objectID, << >>)]
       ELSE /\ UNCHANGED physicsManager_
            /\ call' = [NoCall EXCEPT
                          !.op = "removeObject", !.objectID = objectID,
                          !.sceneID = sceneID]
    /\ FacadeFrame

\* void Simulator::removeObject(const int objectID, const int sceneID)
removeObject(objectID, sceneID) ==
    /\ Live
    /\ IF physicsManager_ # Null /\ sceneID >= 0 /\ sceneID < Len(sceneID_)
       THEN /\ physicsManager_' =
                   Ptr(PhysRemoveObject(Deref(physicsManager_), objectID))
            /\ call' = [NoCall EXCEPT
                          !.op = "removeObject", !.objectID = objectID,
                          !.sceneID = sceneID,
                          !.fwd = Forward("removeObject", objectID, << >>)]
       ELSE /\ UNCHANGED physicsManager_
            /\ call' = [NoCall EXCEPT
                          !.op = "removeObject", !.objectID = objectID,
                          !.sceneID = sceneID]
    /\ FacadeFrame

\* void Simulator::applyTorque(tau, objectID, sceneID)
applyTorque(tau, objectID, sceneID) ==
    /\ Live
    /\ IF physicsManager_ # Null /\ sceneID >= 0 /\ sceneID < Len(sceneID_)
       THEN call' = [NoCall EXCEPT
                       !.op = "applyTorque", !.objectID = objectID,
                       !.sceneID = sceneID, !.arg = << tau >>,
                       !.fwd = Forward("applyTorque", objectID, << tau >>)]
       ELSE call' = [NoCall EXCEPT
                       !.op = "applyTorque", !.objectID = objectID,
                       !.sceneID = sceneID, !.arg = << tau >>]
    /\ UNCHANGED physicsManager_
    /\ FacadeFrame

\* void Simulator::applyForce(force, relPos, objectID, sceneID)
applyForce(force, relPos, objectID, sceneID) ==
    /\ Live
    /\ IF physicsManager_ # Null /\ sceneID >= 0 /\ sceneID < Len(sceneID_)
       THEN call' = [NoCall EXCEPT
                       !.op = "applyForce", !.objectID = objectID,
                       !.sceneID = sceneID, !.arg = << force, relPos >>,
                       !.fwd = Forward("applyForce", objectID,
                                       << force, relPos >>)]
       ELSE call' = [NoCall EXCEPT
                       !.op = "applyForce", !.objectID = objectID,
                       !.sceneID = sceneID, !.arg = << force, relPos >>]
    /\ UNCHANGED physicsManager_
    /\ FacadeFrame

\* void Simulator::setTransformation(transform, objectID, sceneID)
setTransformation(transform, objectID, sceneID) ==
    /\ Live
    /\ IF physicsManager_ # Null /\ sceneID >= 0 /\ sceneID < Len(sceneID_)
       THEN /\ physicsManager_' =
                   Ptr(PhysSetTransformation(Deref(physicsManager_), objectID,
                                             transform))
            /\ call' = [NoCall EXCEPT
                          !.op = "setTransformation", !.objectID = objectID,
                          !.sceneID = sceneID, !.arg = << transform >>,
                          !.fwd = Forward("setTransformation", objectID,
                                          << transform >>)]
       ELSE /\ UNCHANGED physicsManager_
            /\ call' = [NoCall EXCEPT
                          !.op = "setTransformation", !.objectID = objectID,
                          !.sceneID = sceneID, !.arg = << transform >>]
    /\ FacadeFrame

\* const Magnum::Matrix4 Simulator::getTransformation(objectID, sceneID)
getTransformation(objectID, sceneID) ==
    /\ Live
    /\ IF physicsManager_ # Null /\ sceneID >= 0 /\ sceneID < Len(sceneID_)
       THEN call' = [NoCall EXCEPT
                       !.op = "getTransformation", !.objectID = objectID,
                       !.sceneID = sceneID,
                       !.fwd = Forward("getTransformation", objectID, << >>),
                       !.ret = PhysGetTransformation(Deref(physicsManager_),
                                                     objectID)]
       ELSE call' = [NoCall EXCEPT
                       !.op = "getTransformation", !.objectID = objectID,
                       !.sceneID = sceneID, !.ret = IdMatrix]
    /\ UNCHANGED physicsManager_
    /\ FacadeFrame

\* setTranslation forwarding sceneID where the object id belongs
setTranslation_SwappedIds(translation, objectID, sceneID) ==
    /\ Live
    /\ IF physicsManager_ # Null /\ sceneID >= 0 /\ sceneID < Len(sceneID_)
       THEN /\ physicsManager_' =
                   Ptr(PhysSetTranslation(Deref(physicsManager_), sceneID,
                                          translation))
            /\ call' = [NoCall EXCEPT
                          !.op = "setTranslation", !.objectID = objectID,
                          !.sceneID = sceneID, !.arg = << translation >>,
                          !.fwd = Forward("setTranslation", objectID,
                                          << translation >>)]
       ELSE /\ UNCHANGED physicsManager_
            /\ call' = [NoCall EXCEPT
                          !.op = "setTranslation", !.objectID = objectID,
                          !.sceneID = sceneID, !.arg = << translation >>]
    /\ FacadeFrame

\* void Simulator::setTranslation(translation, objectID, sceneID)
setTranslation(translation, objectID, sceneID) ==
    /\ Live
    /\ IF physicsManager_ # Null /\ sceneID >= 0 /\ sceneID < Len(sceneID_)
       THEN /\ physicsManager_' =
                   Ptr(PhysSetTranslation(Deref(physicsManager_), objectID,
                                          translation))
            /\ call' = [NoCall EXCEPT
                          !.op = "setTranslation", !.objectID = objectID,
                          !.sceneID = sceneID, !.arg = << translation >>,
                          !.fwd = Forward("setTranslation", objectID,
                                          << translation >>)]
       ELSE /\ UNCHANGED physicsManager_
            /\ call' = [NoCall EXCEPT
                          !.op = "setTranslation", !.objectID = objectID,
                          !.sceneID = sceneID, !.arg = << translation >>]
    /\ FacadeFrame

\* getTranslation answering for the objects of the active scene graph only
getTranslation_ActiveSceneOnly(objectID, sceneID) ==
    /\ Live
    /\ IF physicsManager_ # Null /\ sceneID >= 0 /\ sceneID < Len(sceneID_)
       THEN call' = [NoCall EXCEPT
                       !.op = "getTranslation", !.objectID = objectID,
                       !.sceneID = sceneID,
                       !.fwd = Forward("getTranslation", objectID, << >>),
                       !.ret = IF sceneID = activeSceneID_
                               THEN PhysGetTranslation(Deref(physicsManager_),
                                                       objectID)
                               ELSE ZeroVec]
       ELSE call' = [NoCall EXCEPT
                       !.op = "getTranslation", !.objectID = objectID,
                       !.sceneID = sceneID, !.ret = ZeroVec]
    /\ UNCHANGED physicsManager_
    /\ FacadeFrame

\* const Magnum::Vector3 Simulator::getTranslation(objectID, sceneID)
getTranslation(objectID, sceneID) ==
    /\ Live
    /\ IF physicsManager_ # Null /\ sceneID >= 0 /\ sceneID < Len(sceneID_)
       THEN call' = [NoCall EXCEPT
                       !.op = "getTranslation", !.objectID = objectID,
                       !.sceneID = sceneID,
                       !.fwd = Forward("getTranslation", objectID, << >>),
                       !.ret = PhysGetTranslation(Deref(physicsManager_),
                                                  objectID)]
       ELSE call' = [NoCall EXCEPT
                       !.op = "getTranslation", !.objectID = objectID,
                       !.sceneID = sceneID, !.ret = ZeroVec]
    /\ UNCHANGED physicsManager_
    /\ FacadeFrame

\* void Simulator::setRotation(rotation, objectID, sceneID)
setRotation(rotation, objectID, sceneID) ==
    /\ Live
    /\ IF physicsManager_ # Null /\ sceneID >= 0 /\ sceneID < Len(sceneID_)
       THEN /\ physicsManager_' =
                   Ptr(PhysSetRotation(Deref(physicsManager_), objectID,
                                       rotation))
            /\ call' = [NoCall EXCEPT
                          !.op = "setRotation", !.objectID = objectID,
                          !.sceneID = sceneID, !.arg = << rotation >>,
                          !.fwd = Forward("setRotation", objectID,
                                          << rotation >>)]
       ELSE /\ UNCHANGED physicsManager_
            /\ call' = [NoCall EXCEPT
                          !.op = "setRotation", !.objectID = objectID,
                          !.sceneID = sceneID, !.arg = << rotation >>]
    /\ FacadeFrame

\* const Magnum::Quaternion Simulator::getRotation(objectID, sceneID)
getRotation(objectID, sceneID) ==
    /\ Live
    /\ IF physicsManager_ # Null /\ sceneID >= 0 /\ sceneID < Len(sceneID_)
       THEN call' = [NoCall EXCEPT
                       !.op = "getRotation", !.objectID = objectID,
                       !.sceneID = sceneID,
                       !.fwd = Forward("getRotation", objectID, << >>),
                       !.ret = PhysGetRotation(Deref(physicsManager_),
                                               objectID)]
       ELSE call' = [NoCall EXCEPT
                       !.op = "getRotation", !.objectID = objectID,
                       !.sceneID = sceneID, !.ret = IdQuat]
    /\ UNCHANGED physicsManager_
    /\ FacadeFrame

\* getWorldTime answering with the wrong sentinel
WorldTime_WrongSentinel(pm) ==
    IF pm # Null THEN PhysGetWorldTime(Deref(pm)) ELSE ID_UNDEFINED

\* const double Simulator::getWorldTime(): its result for a physics pointer
WorldTime(pm) == IF pm # Null THEN PhysGetWorldTime(Deref(pm)) ELSE NO_TIME

\* const double Simulator::stepWorld(const double dt)
stepWorld(dt) ==
    /\ Live
    /\ physicsManager_ # Null =>
           PhysGetWorldTime(Deref(physicsManager_)) + dt <= MaxTime
    /\ physicsManager_' =
           IF physicsManager_ # Null
           THEN Ptr(PhysStepPhysics(Deref(physicsManager_), dt))
           ELSE physicsManager_
    /\ call' = [NoCall EXCEPT
                  !.op = "stepWorld", !.arg = << dt >>,
                  !.fwd = IF physicsManager_ # Null
                          THEN Forward("stepPhysics", ID_UNDEFINED, << dt >>)
                               \o Forward("getWorldTime", ID_UNDEFINED,
                                          << >>)
                          ELSE << >>,
                  !.ret = WorldTime(physicsManager_')]
    /\ FacadeFrame

\* const double Simulator::getWorldTime()
getWorldTime ==
    /\ Live
    /\ call' = [NoCall EXCEPT
                  !.op = "getWorldTime",
                  !.fwd = IF physicsManager_ # Null
                          THEN Forward("getWorldTime", ID_UNDEFINED, << >>)
                          ELSE << >>,
                  !.ret = WorldTime(physicsManager_)]
    /\ UNCHANGED physicsManager_
    /\ FacadeFrame

Next ==
    \/ Construct(Configs)
    \/ Reconfigure(Configs)
    \/ Reset
    \/ getActiveSceneGraph
    \/ getActiveSemanticSceneGraph

Spec == Init /\ [][Next]_vars

\* the specification under which the object-addressing facade is exercised
NextFacade ==
    \/ Construct(FacadeConfigs)
    \/ Reconfigure(FacadeConfigs)
    \/ Reset
    \/ \E objectLibIndex \in LibIndexArgs, sceneID \in SceneIdArgs :
          addObject(objectLibIndex, sceneID)
    \/ \E sceneID \in SceneIdArgs : getExistingObjectIDs(sceneID)
    \/ \E objectID \in ObjIdArgs, sceneID \in SceneIdArgs :
          removeObject(objectID, sceneID)
    \/ \E tau \in Forces, objectID \in ObjIdArgs, sceneID \in SceneIdArgs :
          applyTorque(tau, objectID, sceneID)
    \/ \E force \in Forces, relPos \in RelPositions, objectID \in ObjIdArgs,
          sceneID \in SceneIdArgs :
          applyForce(force, relPos, objectID, sceneID)
    \/ \E transform \in Matrices, objectID \in ObjIdArgs,
          sceneID \in SceneIdArgs :
          setTransformation(transform, objectID, sceneID)
    \/ \E objectID \in ObjIdArgs, sceneID \in SceneIdArgs :
          getTransformation(objectID, sceneID)
    \/ \E translation \in Vecs, objectID \in ObjIdArgs,
          sceneID \in SceneIdArgs :
          setTranslation(translation, objectID, sceneID)
    \/ \E objectID \in ObjIdArgs, sceneID \in SceneIdArgs :
          getTranslation(objectID, sceneID)
    \/ \E rotation \in Quats, objectID \in ObjIdArgs, sceneID \in SceneIdArgs :
          setRotation(rotation, objectID, sceneID)
    \/ \E objectID \in ObjIdArgs, sceneID \in SceneIdArgs :
          getRotation(objectID, sceneID)

SpecFacade == Init /\ [][NextFacade]_vars

\* the specification under which the world clock and the seed are exercised
NextTime ==
    \/ Construct(FacadeConfigs)
    \/ Reconfigure(FacadeConfigs)
    \/ Reset
    \/ Seed
    \/ \E objectLibIndex \in LibIndexArgs, sceneID \in SceneIdArgs :
          addObject(objectLibIndex, sceneID)
    \/ \E dt \in Dts : stepWorld(dt)
    \/ getWorldTime

SpecTime == Init /\ [][NextTime]_vars

\* the specification of every function that is not reconfigure, next to
\* reconfigure: the object-addressing facade, called with an accepted and a
\* rejected scene id and with the first and a missing object id, the world
\* time and the seed
FrameSceneIds == { 0, MaxGraphs }
FrameObjIds == { 0, MaxObjects }
NextPhysics ==
    \/ Construct(FacadeConfigs)
    \/ Reconfigure(FacadeConfigs)
    \/ Reset
    \/ Seed
    \/ \E objectLibIndex \in LibIndexArgs, sceneID \in FrameSceneIds :
          addObject(objectLibIndex, sceneID)
    \/ \E sceneID \in FrameSceneIds : getExistingObjectIDs(sceneID)
    \/ \E objectID \in FrameObjIds, sceneID \in FrameSceneIds :
          removeObject(objectID, sceneID)
    \/ \E tau \in Forces, objectID \in FrameObjIds, sceneID \in FrameSceneIds :
          applyTorque(tau, objectID, sceneID)
    \/ \E force \in Forces, relPos \in RelPositions, objectID \in FrameObjIds,
          sceneID \in FrameSceneIds :
          applyForce(force, relPos, objectID, sceneID)
    \/ \E transform \in Matrices, objectID \in FrameObjIds,
          sceneID \in FrameSceneIds :
          setTransformation(transform, objectID, sceneID)
    \/ \E objectID \in FrameObjIds, sceneID \in FrameSceneIds :
          getTransformation(objectID, sceneID)
    \/ \E translation \in Vecs, objectID \in FrameObjIds,
          sceneID \in FrameSceneIds :
          setTranslation(translation, objectID, sceneID)
    \/ \E objectID \in FrameObjIds, sceneID \in FrameSceneIds :
          getTranslation(objectID, sceneID)
    \/ \E rotation \in Quats, objectID \in FrameObjIds,
          sceneID \in FrameSceneIds :
          setRotation(rotation, objectID, sceneID)
    \/ \E objectID \in FrameObjIds, sceneID \in FrameSceneIds :
          getRotation(objectID, sceneID)
    \/ \E dt \in Dts : stepWorld(dt)
    \/ getWorldTime

SpecPhysics == Init /\ [][NextPhysics]_vars

\* ======================================================================
\* Properties
\* ======================================================================
ReconfigureOps == { "Simulator", "reconfigure" }
FacadeOps ==
    { "addObject", "removeObject", "getExistingObjectIDs", "applyForce",
      "applyTorque", "setTransformation", "setTranslation", "setRotation",
      "getTransformation", "getTranslation", "getRotation" }

\* the facade's acceptance condition for a scene id in the current state
Accepted(sceneID) ==
    physicsManager_ # Null /\ sceneID >= 0 /\ sceneID < Len(sceneID_)

\* the loads of a call that went into its primary graph
PrimaryLoads(c) ==
    Cardinality({ i \in DOMAIN c.loads : c.loads[i].graph = c.allocs[1] })

C2_ShortCircuitOnlyWhenAllFieldsAgree ==
    (call.op \in ReconfigureOps /\ call.short) => call.cfg = config_

\* C3: an object-addressing call is forwarded to the physics world, exactly
\* once and with the same object id and arguments, if and only if a physics
\* world is bound and 0 <= sceneID < number of graph ids recorded; this holds
\* for the ids of older graphs and of the semantic graph too.
C3_ForwardedIffAccepted ==
    [][ call'.op \in FacadeOps =>
          IF Accepted(call'.sceneID)
          THEN /\ Len(call'.fwd) = 1
               /\ call'.fwd[1].fn = call'.op
               /\ call'.fwd[1].objectID = call'.objectID
               /\ call'.fwd[1].args =
                    (IF call'.op = "addObject"
                     THEN call'.arg \o << call'.sceneID >>
                     ELSE call'.arg)
          ELSE call'.fwd = << >>
      ]_vars

\* a call addressed with the id of a graph that is not the active one (an
\* older graph or the semantic graph) was forwarded
C3_Witness ==
    /\ call.op = "setRotation"
    /\ Len(call.fwd) = 1
    /\ call.sceneID # activeSceneID_
    /\ Len(sceneID_) = 3

\* C4: with a sceneID outside [0, number of graphs) or with no physics world
\* bound, an object-addressing call raises nothing, changes neither the
\* physics world nor the simulator and returns its default: ID_UNDEFINED, the
\* identity matrix, the zero vector, the identity rotation, an empty list, or
\* nothing.
FacadeDefault(op) ==
    CASE op = "addObject" -> ID_UNDEFINED
      [] op = "getTransformation" -> IdMatrix
      [] op = "getTranslation" -> ZeroVec
      [] op = "getRotation" -> IdQuat
      [] op = "getExistingObjectIDs" -> { }
      [] OTHER -> NoCall.ret

C5_NoTimeWithoutPhysics ==
    [][ (physicsManager_ = Null /\ call'.op \in { "getWorldTime", "stepWorld" })
          => /\ call'.ret = NO_TIME
             /\ call'.fwd = << >>
             /\ simVars' = simVars
      ]_vars

\* getWorldTime right after a stepWorld, both without a physics world
C5_Witness ==
    /\ call.op = "stepWorld"
    /\ call.arg = << 2 >>
    /\ physicsManager_ = Null
    /\ call.ret = NO_TIME
    /\ life = "used"

\* C6: after construction with physics disabled and no renderer requested no
\* physics world is bound, addObject returns ID_UNDEFINED and stepWorld
\* returns NO_TIME.
C6_ConstructedWithoutPhysics ==
    (life = "fresh" /\ ~config_.enablePhysics /\ ~config_.createRenderer) =>
        /\ physicsManager_ = Null
        /\ call.op = "addObject" => call.ret = ID_UNDEFINED /\ call.fwd = << >>
        /\ call.op = "stepWorld" => call.ret = NO_TIME /\ call.fwd = << >>

\* addObject with an in-range scene id on such a simulator
C6_Witness ==
    /\ life = "fresh"
    /\ ~config_.enablePhysics
    /\ ~config_.createRenderer
    /\ call.op = "addObject"
    /\ call.sceneID = 0
    /\ call.arg = << 0 >>
    /\ call.ret = ID_UNDEFINED

\* C7: with a physics world bound, setTranslation(t, objectID, sceneID) on an
\* existing object with an in-range scene id, immediately followed by
\* getTranslation(objectID, sceneID), returns t.
C7_SetThenGetTranslation ==
    [][ (/\ call.op = "setTranslation"
         /\ Accepted(call.sceneID)
         /\ Exists(Deref(physicsManager_), call.objectID)
         /\ call'.op = "getTranslation"
         /\ call'.objectID = call.objectID
         /\ call'.sceneID = call.sceneID)
          => call'.ret = call.arg[1]
      ]_vars

\* a getTranslation that returned the non-zero translation just set
C7_Witness ==
    /\ call.op = "getTranslation"
    /\ Accepted(call.sceneID)
    /\ Exists(Deref(physicsManager_), call.objectID)
    /\ call.ret = << 1, 0, 0 >>

\* C8: getActiveSceneGraph fails exactly when the active scene graph id is
\* negative or >= the number of graph ids recorded, and otherwise returns the
\* graph the registry resolves for that id; likewise
\* getActiveSemanticSceneGraph for the active semantic id. Neither returns a
\* default or another graph.
C8_AccessorsFailExactlyOutOfRange ==
    [][ /\ call'.op = "getActiveSceneGraph" =>
             /\ call'.threw <=>
                  (activeSceneID_ < 0 \/ activeSceneID_ >= Len(sceneID_))
             /\ ~call'.threw =>
                  call'.ret = << activeSceneID_,
                                 sceneManager_[activeSceneID_ + 1] >>
             /\ call'.threw => call'.ret = NoCall.ret /\ life' = "dead"
        /\ call'.op = "getActiveSemanticSceneGraph" =>
             /\ call'.threw <=>
                  (activeSemanticSceneID_ < 0
                     \/ activeSemanticSceneID_ >= Len(sceneID_))
             /\ ~call'.threw =>
                  call'.ret = << activeSemanticSceneID_,
                                 sceneManager_[activeSemanticSceneID_ + 1] >>
             /\ call'.threw => call'.ret = NoCall.ret /\ life' = "dead"
      ]_vars

\* the semantic accessor failed although graphs exist
C8_Witness ==
    /\ call.op = "getActiveSemanticSceneGraph"
    /\ call.threw
    /\ Len(sceneID_) > 0
    /\ activeSemanticSceneID_ = ID_UNDEFINED

\* C9: when the primary load fails in a reconfigure that requests a renderer,
\* the call ends with an error there: the load is not retried, no semantic
\* graph is allocated, the semantic scene is not rebuilt and reset is not
\* invoked.
C9_PrimaryLoadFailureIsFatal ==
    [][ (/\ call'.op \in ReconfigureOps
         /\ call'.loads # << >>
         /\ ~call'.loads[1].ok)
          => /\ call'.threw
             /\ Len(call'.loads) = 1
             /\ call'.allocs = << activeSceneID_' >>
             /\ Len(sceneID_') = Len(sceneID_) + 1
             /\ call'.semRebuilds = 0
             /\ call'.mp3dLoads = 0
             /\ call'.suncgLoads = 0
             /\ call'.resets = 0
             /\ call'.physResets = 0
             /\ semanticScene_' = semanticScene_
             /\ activeSemanticSceneID_' = activeSemanticSceneID_
      ]_vars

\* a reconfigure on a live simulator failed on its primary load
C9_Witness ==
    /\ call.op = "reconfigure"
    /\ call.threw
    /\ Len(call.loads) = 1
    /\ ~call.loads[1].ok
    /\ semanticScene_ # Null

\* C10: every loadScene call of a reconfigure that returns false, be it the
\* load of the primary scene or of the companion semantic mesh, makes that
\* reconfigure fail with an error.
C10_EveryFailedLoadIsFatal ==
    (call.op \in ReconfigureOps
       /\ \E i \in DOMAIN call.loads : ~call.loads[i].ok) => call.threw

\* C11: when a reconfigure(C) call fails because the primary load failed,
\* nothing done before the failure is undone: the stored configuration is C
\* and no longer the previous one, the graph this call allocated is still in
\* the registry, its id is the active scene graph id and the last entry of
\* the list of graph ids, and the renderer is the one this call built.
C11_FailedReconfigureKeepsPartialState ==
    [][ (call'.op \in ReconfigureOps /\ call'.threw) =>
          /\ config_' = call'.cfg
          /\ config_' # config_
          /\ call'.allocs = << Len(sceneManager_) >>
          /\ Len(sceneManager_') = Len(sceneManager_) + 1
          /\ IsIssued(sceneManager_', call'.allocs[1])
          /\ activeSceneID_' = call'.allocs[1]
          /\ sceneID_' = Append(sceneID_, call'.allocs[1])
          /\ Len(call'.renderers) = 1
          /\ renderer_' = Ptr(call'.renderers[1])
          /\ Deref(renderer_') = [width |-> call'.cfg.width,
                                  height |-> call'.cfg.height]
      ]_vars

\* a reconfigure failed on a simulator that already had a renderer of another
\* size and an active graph: both were replaced although the call failed
C11_Witness ==
    /\ call.op = "reconfigure"
    /\ call.threw
    /\ life = "used"
    /\ Len(sceneID_) >= 2
    /\ activeSceneID_ = sceneID_[Len(sceneID_)]
    /\ config_ = call.cfg
    /\ call.cfg.width = 320
    /\ renderer_ = Ptr([width |-> 320, height |-> 480])

\* C12: a reconfigure call that fails commits no part of the scene-graph /
\* renderer / physics triad: after it the active scene graph id, the renderer
\* and the physics-world binding are those in effect before the call.
C12_FailedReconfigureCommitsNothing ==
    [][ (call'.op = "reconfigure" /\ call'.threw) =>
          /\ activeSceneID_' = activeSceneID_
          /\ renderer_' = renderer_
          /\ physicsManager_' = physicsManager_
      ]_vars

\* the asset type reconfigure resolves for a configuration
ResolvedType(cfg) == fromPath(SceneFilename(cfg))

\* C13: for every configuration whose resolved asset type is FRL instance
\* mesh, SUNCG scene or instance mesh, a reconfigure that was not
\* short-circuited and returned normally leaves the active semantic scene
\* graph id equal to the active scene graph id and allocated exactly one
\* graph, the primary one, whatever companion files exist.
C13_EmbeddedSemanticsAllocateOneGraph ==
    (/\ call.op \in ReconfigureOps
     /\ ~call.short
     /\ ~call.threw
     /\ HasEmbeddedSemantics(ResolvedType(call.cfg)))
      => /\ activeSemanticSceneID_ = activeSceneID_
         /\ call.allocs = << activeSceneID_ >>

\* C14: no reconfigure call runs both semantic-annotation loaders, the
\* Matterport-style house loader and the SUNCG house loader.
C14_AtMostOneHouseLoader ==
    call.op \in ReconfigureOps =>
      ~(call.mp3dLoads > 0 /\ call.suncgLoads > 0)

\* C15: over any sequence of calls the rendering context is created at most
\* once, by the first reconfigure that is not short-circuited and requests a
\* renderer; once present it is never recreated, replaced or torn down, also
\* when a later configuration names another GPU device.
C15_ContextCreatedOnce ==
    [][ /\ context_ # Null => context_' = context_
        /\ call'.contexts # << >> =>
             /\ context_ = Null
             /\ call'.op \in ReconfigureOps
             /\ ~call'.short
             /\ call'.cfg.createRenderer
             /\ call'.contexts = << call'.cfg.gpuDeviceId >>
             /\ context_' = Ptr([gpuDeviceId |-> call'.cfg.gpuDeviceId])
        /\ call'.contexts = << >> => context_' = context_
        /\ (/\ call'.op \in ReconfigureOps
            /\ ~call'.short
            /\ call'.cfg.createRenderer
            /\ context_ = Null) => call'.contexts # << >>
      ]_vars

\* a later reconfigure for another GPU device built a renderer and kept the
\* context made for the first device
C15_Witness ==
    /\ call.op = "reconfigure"
    /\ ~call.short
    /\ ~call.threw
    /\ call.cfg.createRenderer
    /\ call.cfg.gpuDeviceId = 1
    /\ call.contexts = << >>
    /\ call.renderers # << >>
    /\ context_ = Ptr([gpuDeviceId |-> 0])
    /\ config_.gpuDeviceId = 1

\* C16: every reconfigure that is not short-circuited, with or without a
\* renderer and whether or not its load then fails, allocates exactly one new
\* primary scene graph, sets the active scene graph id to the id returned and
\* appends that id to the list of graph ids; no other call allocates a graph
\* or assigns the active scene graph id, so the active scene graph id is
\* always the id of the most recently allocated primary graph.
C16_ReconfigureAllocatesActivePrimaryGraph ==
    [][ /\ (call'.op \in ReconfigureOps /\ ~call'.short) =>
             /\ call'.allocs # << >>
             /\ call'.allocs[1] = Len(sceneManager_)
             /\ Len(sceneManager_') = Len(sceneManager_) + Len(call'.allocs)
             /\ Len(call'.allocs) <= 2
             /\ PrimaryLoads(call') <= 1
             /\ activeSceneID_' = call'.allocs[1]
             /\ Len(sceneID_') = Len(sceneID_) + Len(call'.allocs)
             /\ sceneID_'[Len(sceneID_) + 1] = activeSceneID_'
             /\ SubSeq(sceneID_', 1, Len(sceneID_)) = sceneID_
        /\ ~(call'.op \in ReconfigureOps /\ ~call'.short) =>
             /\ call'.allocs = << >>
             /\ sceneManager_' = sceneManager_
             /\ sceneID_' = sceneID_
             /\ activeSceneID_' = activeSceneID_
      ]_vars

\* a reconfigure without a renderer on a simulator holding two graphs made a
\* third graph and made it the active one
C16_Witness ==
    /\ call.op = "reconfigure"
    /\ ~call.short
    /\ ~call.cfg.createRenderer
    /\ call.loads = << >>
    /\ call.allocs = << 2 >>
    /\ activeSceneID_ = 2
    /\ sceneID_ = << 0, 1, 2 >>
    /\ Len(sceneManager_) = 3

\* the entries of a sequence
Range(s) == { s[i] : i \in DOMAIN s }

\* a sequence of integers in strictly increasing order
StrictlyIncreasing(s) ==
    \A i \in DOMAIN s : \A j \in DOMAIN s : i < j => s[i] < s[j]

\* C17: scene graph ids are handed out in strictly increasing order and never
\* reused, and no call removes a graph or an entry of the list of graph ids:
\* the graphs and list entries present before a step are still there after
\* it, the ids a call allocates are larger than all ids handed out before,
\* every id in the list (so every id that ever was the active or the active
\* semantic id) resolves to a graph, and the number of graphs never decreases.
C17_GraphIdsIncreaseAndArePermanent ==
    [][ /\ Len(sceneManager_') >= Len(sceneManager_)
        /\ SubSeq(sceneManager_', 1, Len(sceneManager_)) = sceneManager_
        /\ Len(sceneID_') >= Len(sceneID_)
        /\ SubSeq(sceneID_', 1, Len(sceneID_)) = sceneID_
        /\ StrictlyIncreasing(sceneID_')
        /\ StrictlyIncreasing(call'.allocs)
        /\ \A n \in Range(call'.allocs) :
             /\ n \notin Range(sceneID_)
             /\ \A o \in Range(sceneID_) : o < n
             /\ ~IsIssued(sceneManager_, n)
        /\ \A n \in Range(sceneID_') : IsIssued(sceneManager_', n)
        /\ activeSceneID_' \in Range(sceneID_') \cup { ID_UNDEFINED }
        /\ activeSemanticSceneID_' \in Range(sceneID_') \cup { ID_UNDEFINED }
        /\ (activeSceneID_ # ID_UNDEFINED) =>
              /\ IsIssued(sceneManager_', activeSceneID_)
              /\ sceneManager_'[activeSceneID_ + 1] =
                   sceneManager_[activeSceneID_ + 1]
        /\ (activeSemanticSceneID_ # ID_UNDEFINED) =>
              /\ IsIssued(sceneManager_', activeSemanticSceneID_)
              /\ sceneManager_'[activeSemanticSceneID_ + 1] =
                   sceneManager_[activeSemanticSceneID_ + 1]
      ]_vars

\* after three reconfigures the first graph, no longer active, is still in
\* the registry with what was loaded into it
C17_Witness ==
    /\ call.op = "reconfigure"
    /\ ~call.short
    /\ sceneID_ = << 0, 1, 2 >>
    /\ activeSceneID_ = 2
    /\ activeSemanticSceneID_ = 1
    /\ IsIssued(sceneManager_, 0)
    /\ sceneManager_[1].loaded

\* C18: in a reconfigure that is not short-circuited, requests a renderer and
\* whose primary load succeeded, a second scene graph is allocated if and only
\* if the companion house file exists and the semantic mesh named after it
\* (house path without extension + "_semantic.ply") exists; the id of that
\* graph is appended to the list of graph ids and assigned to the active
\* semantic scene graph id (and stays its value unless the asset has embedded
\* semantics), and the semantic mesh is loaded into that graph without a
\* physics-world handle, also when the configuration enables physics.
C18_SemanticGraphIffHouseAndMesh ==
    [][ (/\ call'.op \in ReconfigureOps
         /\ ~call'.short
         /\ call'.cfg.createRenderer
         /\ ~call'.threw)
          => LET c == call'
                 house == HouseFilename(c.cfg)
                 mesh == removeExtension(house) \o << "_semantic", ".ply" >>
                 id2 == Len(sceneManager_) + 1
             IN  /\ Len(c.allocs) \in { 1, 2 }
                 /\ Len(c.allocs) = 2 <=> Len(c.loads) = 2
                 /\ Len(c.allocs) = 2 <=> (house \in c.found /\ mesh \in c.found)
                 /\ Len(c.allocs) = 2 =>
                      /\ c.allocs[2] = id2
                      /\ IsIssued(sceneManager_', id2)
                      /\ sceneID_' = sceneID_ \o << id2 - 1, id2 >>
                      /\ id2 \in Range(c.semIds)
                      /\ ~HasEmbeddedSemantics(ResolvedType(c.cfg)) =>
                           activeSemanticSceneID_' = id2
                      /\ c.loads[2].asset = mesh
                      /\ c.loads[2].graph = id2
                      /\ ~c.loads[2].physics
                      /\ c.loads[1].physics = c.cfg.enablePhysics
                 /\ Len(c.allocs) = 1 =>
                      /\ sceneID_' = Append(sceneID_, Len(sceneManager_))
                      /\ id2 \notin Range(c.semIds)
      ]_vars

\* a reconfigure with physics enabled found the house file and the semantic
\* mesh and loaded the mesh into a second graph without the physics world
C18_Witness ==
    /\ call.op = "reconfigure"
    /\ ~call.short
    /\ ~call.threw
    /\ call.cfg.enablePhysics
    /\ call.cfg.createRenderer
    /\ Len(call.allocs) = 2
    /\ Len(call.loads) = 2
    /\ call.loads[1].physics
    /\ ~call.loads[2].physics
    /\ call.loads[2].asset = << "apt", "_semantic", ".ply" >>
    /\ activeSemanticSceneID_ = call.allocs[2]
    /\ sceneID_[Len(sceneID_)] = call.allocs[2]
    /\ physicsManager_ # Null

\* C19: reset() calls the physics world's reset exactly once if a physics
\* world is bound and calls nothing otherwise; either way it loads no asset,
\* allocates no graph and leaves the stored configuration, the active and
\* active semantic ids, the list of graph ids, the registry, the context, the
\* renderer, the semantic scene and the physics binding as they were, so a
\* reset following a reset leaves the state as the first one left it.
C19_ResetOnlyResetsPhysics ==
    [][ /\ call'.op = "reset" =>
             /\ call'.resets = 1
             /\ call'.physResets = (IF physicsManager_ # Null THEN 1 ELSE 0)
             /\ call'.loads = << >>
             /\ call'.allocs = << >>
             /\ call'.renderers = << >>
             /\ call'.contexts = << >>
             /\ call'.semRebuilds = 0
             /\ call'.mp3dLoads = 0
             /\ call'.suncgLoads = 0
             /\ ~call'.threw
             /\ (physicsManager_' = Null) <=> (physicsManager_ = Null)
             /\ UNCHANGED << config_, sceneManager_, sceneID_, activeSceneID_,
                             activeSemanticSceneID_, context_, renderer_,
                             semanticScene_, random_ >>
        /\ (call.op = "reset" /\ call'.op = "reset") =>
             /\ UNCHANGED simVars
             /\ call'.physResets = call.physResets
      ]_vars

\* reset was called on a simulator with a bound physics world, a renderer and
\* two graphs, and called the physics world's reset once
C19_Witness ==
    /\ call.op = "reset"
    /\ call.physResets = 1
    /\ physicsManager_ # Null
    /\ renderer_ # Null
    /\ Len(sceneID_) >= 2
    /\ semanticScene_ # Null

\* C20: the SemanticScene is replaced on every reconfigure: after each
\* reconfigure call that returns normally the Simulator holds a SemanticScene
\* created during that call, populated only from the semantic sources of the
\* configuration passed to the call and empty when there are none.
C20_SemanticSceneReplacedByEveryReconfigure ==
    [][ (call'.op = "reconfigure" /\ ~call'.threw) =>
          /\ call'.semRebuilds = 1
          /\ semanticScene_' # Null
          /\ Deref(semanticScene_').mp3dHouse \in
               { NoPath, HouseFilename(call'.cfg) }
          /\ Deref(semanticScene_').suncgHouse \in
               { NoPath, SceneFilename(call'.cfg) }
          /\ Deref(semanticScene_').mp3dHouse # NoPath <=>
               HouseFilename(call'.cfg) \in call'.found
          /\ Deref(semanticScene_').suncgHouse # NoPath <=>
               ResolvedType(call'.cfg) = "SUNCG_SCENE"
      ]_vars

\* the positions of a step in the steps of a call
StepsAt(c, step) == { i \in DOMAIN c.steps : c.steps[i] = step }

\* C23: in every reconfigure call that returns normally reset is invoked
\* exactly once and as the last step: when the call is not short-circuited,
\* after the configuration is adopted, the primary graph allocated, all scene
\* loads done and the semantic scene rebuilt; in a reconfigure call that
\* fails reset is not invoked at all.
C23_ResetOnceAndLast ==
    [][ call'.op \in ReconfigureOps =>
          LET c == call'
              n == Len(c.steps)
          IN  /\ ~c.threw =>
                   /\ c.resets = 1
                   /\ StepsAt(c, "reset") = { n }
                   /\ c.physResets = (IF physicsManager_' # Null THEN 1 ELSE 0)
              /\ (~c.threw /\ ~c.short) =>
                   /\ c.steps[1] = "config_ = cfg"
                   /\ c.steps[2] = "initSceneGraph"
                   /\ c.steps[n - 1] \in { "SemanticScene::create",
                                           "loadMp3dHouse", "loadSuncgHouse" }
                   /\ Cardinality(StepsAt(c, "SemanticScene::create")) = 1
                   /\ Cardinality(StepsAt(c, "loadScene")) = Len(c.loads)
                   /\ Cardinality(StepsAt(c, "initSceneGraph")) = Len(c.allocs)
                   /\ \A i \in StepsAt(c, "loadScene") \cup
                               StepsAt(c, "initSceneGraph") :
                        \A j \in StepsAt(c, "SemanticScene::create") : i < j
                   /\ config_' = c.cfg
                   /\ c.semRebuilds = 1
              /\ c.threw =>
                   /\ c.resets = 0
                   /\ c.physResets = 0
                   /\ StepsAt(c, "reset") = { }
      ]_vars

\* a reconfigure that bound the physics world, loaded two scenes and rebuilt
\* the semantic scene reset that new world once, as its last step
C23_Witness ==
    /\ call.op = "reconfigure"
    /\ ~call.short
    /\ ~call.threw
    /\ Len(call.loads) = 2
    /\ call.loads[1].physics
    /\ call.resets = 1
    /\ call.physResets = 1
    /\ call.steps[Len(call.steps)] = "reset"
    /\ Len(call.steps) >= 8

\* C24: every reconfigure that is not short-circuited and requests a renderer
\* discards the previous renderer and constructs exactly one new renderer of
\* the configuration's width and height before it issues the primary scene
\* load; so after any reconfigure(C) that requests a renderer and returns
\* normally the Simulator's renderer has C's framebuffer dimensions (stated
\* here for a reconfigure on a simulator that already has a renderer).
C24_RendererHasConfiguredSize ==
    [][ /\ (call'.op \in ReconfigureOps /\ ~call'.short
              /\ call'.cfg.createRenderer) =>
             /\ call'.renderers = << [width |-> call'.cfg.width,
                                      height |-> call'.cfg.height] >>
             /\ renderer_' = Ptr(call'.renderers[1])
             /\ \A i \in StepsAt(call', "Renderer::create") :
                  \A j \in StepsAt(call', "loadScene") : i < j
        /\ (call'.op = "reconfigure" /\ call'.cfg.createRenderer
              /\ ~call'.threw /\ renderer_ # Null) =>
             /\ renderer_' # Null
             /\ Deref(renderer_') = [width |-> call'.cfg.width,
                                     height |-> call'.cfg.height]
      ]_vars

\* C25: after every reconfigure(C) that requests a renderer and returns
\* normally, the rendering context that exists is one created for C's
\* configured GPU device (stated here for the calls that are not
\* short-circuited).
C25_ContextIsForConfiguredDevice ==
    [][ (call'.op = "reconfigure" /\ call'.cfg.createRenderer
           /\ ~call'.short /\ ~call'.threw) =>
          /\ context_' # Null
          /\ Deref(context_').gpuDeviceId = call'.cfg.gpuDeviceId
      ]_vars

\* C26: in every reachable state the list of graph ids is exactly
\* 0, 1, ..., n-1 in order, n being the number of graphs the registry has
\* allocated; so a scene id that passed the facade's range check
\* 0 <= sceneID < n, or an accessor's range check, is an id the registry
\* issued and the lookup that follows never fails.
C26_ListedIdsAreTheIssuedIds ==
    /\ sceneID_ = [i \in 1 .. Len(sceneManager_) |-> i - 1]
    /\ \A sceneID \in SceneIdArgs :
         (sceneID >= 0 /\ sceneID < Len(sceneID_)) =>
            IsIssued(sceneManager_, sceneID)
    /\ (call.op = "addObject" /\ call.fwd # << >>) => ~call.threw
    /\ call.op \in { "getActiveSceneGraph", "getActiveSemanticSceneGraph" } =>
         (~call.threw => call.ret # << "InvalidHandle" >>)

\* addObject was forwarded for the id of a graph that is not the active one,
\* and the registry resolved it
C26_Witness ==
    /\ call.op = "addObject"
    /\ call.fwd # << >>
    /\ ~call.threw
    /\ call.sceneID = MaxGraphs - 1
    /\ call.sceneID # activeSceneID_
    /\ Len(sceneID_) = MaxGraphs
    /\ IsIssued(sceneManager_, call.sceneID)

\* C27: after a Simulator has been constructed successfully with any
\* configuration, one equal to the default-constructed configuration
\* included, a primary scene graph has been allocated and the active scene
\* graph id lies in [0, number of allocated graphs), so getActiveSceneGraph()
\* succeeds in every state reachable after construction.
C27_ConstructedHasActiveGraph ==
    /\ life \in { "fresh", "used" } =>
         /\ Len(sceneManager_) >= 1
         /\ activeSceneID_ >= 0
         /\ activeSceneID_ < Len(sceneManager_)
    /\ call.op = "getActiveSceneGraph" => ~call.threw

\* C28: after every reconfigure that returns normally a physics world is
\* bound if and only if the stored configuration enables physics and requests
\* a renderer; so after reconfiguring from a configuration with physics to
\* one without, the physics functions behave as with no physics world.
C28_PhysicsBoundIffEnabled ==
    (call.op \in ReconfigureOps /\ ~call.threw) =>
       (physicsManager_ # Null <=>
          (config_.enablePhysics /\ config_.createRenderer))

\* C29: after every reconfigure that is not short-circuited and returns
\* normally the active semantic scene graph id is undefined, equal to the
\* active scene graph id, or the id of a graph allocated during that call;
\* it never refers to a graph loaded for an earlier configuration.
C29_SemanticIdIsCurrent ==
    (call.op \in ReconfigureOps /\ ~call.short /\ ~call.threw) =>
       activeSemanticSceneID_ \in
          ({ ID_UNDEFINED, activeSceneID_ } \cup Range(call.allocs))

\* C30: a reconfigure(C) call that requests a renderer returns normally only
\* if the primary scene of C has been loaded successfully into the active
\* scene graph; in particular (the case stated here) a reconfigure(C) issued
\* right after a reconfigure(C) that failed on the primary load does not
\* return normally without loading.
C30_NoNormalReturnAfterFailedLoad ==
    [][ (/\ call.op \in ReconfigureOps
         /\ call.threw
         /\ call'.op = "reconfigure"
         /\ call'.cfg = call.cfg
         /\ call'.cfg.createRenderer
         /\ ~call'.threw)
          => /\ call'.loads # << >>
             /\ call'.loads[1].ok
             /\ IsIssued(sceneManager_', activeSceneID_')
             /\ sceneManager_'[activeSceneID_' + 1].loaded
      ]_vars

\* ===================================================================== Sensor
\* Sensor (Sensor.h): the specification it was made with and the render
\* target it owns.  A SensorSpec is modelled by its resolution, in H x W
\* order; a RenderTarget by the serial number of its allocation and its
\* framebuffer size, in W x H order.
MaxDim == 3
MaxBinds == 3
Dims == 1 .. MaxDim
Resolutions == { << h, w >> : h \in Dims, w \in Dims }
SensorSpecs == { [resolution |-> r] : r \in Resolutions }
FramebufferSizes == { << w, h >> : w \in Dims, h \in Dims }

\* what framebufferSize would be if the resolution were not swapped
framebufferSize_Unswapped(spec) ==
    << Deref(spec).resolution[1], Deref(spec).resolution[2] >>

\* Magnum::Vector2i Sensor::framebufferSize() const:
\* {spec_->resolution[1], spec_->resolution[0]} (sequences count from 1)
framebufferSize(spec) ==
    << Deref(spec).resolution[2], Deref(spec).resolution[1] >>

\* the target a caller can hand over next: a new allocation (the sensor owns
\* what it was given, and deletes a target when another one replaces it), of
\* any size
NewTargets(tgt) ==
    { [id |-> (IF tgt = Null THEN 0 ELSE Deref(tgt).id) + 1, size |-> s] :
        s \in FramebufferSizes }

\* explicit Sensor(node, spec): spec_ is the given spec, tgt_ is nullptr
InitSensor ==
    /\ SimInit
    /\ NoDepth
    /\ spec_ \in { Ptr(s) : s \in SensorSpecs }
    /\ tgt_ = Null

SensorFrame == UNCHANGED << simVars, physicsManager_, life, depthVars, spec_ >>

\* bool Sensor::hasRenderTarget() const
hasRenderTarget ==
    /\ spec_ # Null
    /\ call' = [NoCall EXCEPT !.op = "hasRenderTarget",
                              !.ret = << tgt_ # Null >>]
    /\ tgt_' = tgt_
    /\ SensorFrame

\* void Sensor::bindRenderTarget(gfx::RenderTarget* tgt)
bindRenderTarget ==
    /\ spec_ # Null
    /\ \E tgt \in NewTargets(tgt_) :
         /\ tgt.id <= MaxBinds
         /\ IF tgt.size # framebufferSize(spec_)
            THEN /\ call' = [NoCall EXCEPT !.op = "bindRenderTarget",
                                !.arg = << tgt >>, !.threw = TRUE,
                                !.ret = << "RenderTarget is not the correct size" >>]
                 /\ tgt_' = tgt_
            ELSE /\ call' = [NoCall EXCEPT !.op = "bindRenderTarget",
                                !.arg = << tgt >>]
                 /\ tgt_' = Ptr(tgt)
    /\ SensorFrame

\* gfx::RenderTarget& Sensor::renderTarget()
renderTarget ==
    /\ spec_ # Null
    /\ IF tgt_ = Null
       THEN call' = [NoCall EXCEPT !.op = "renderTarget", !.threw = TRUE,
                        !.ret = << "Sensor has no rendering target" >>]
       ELSE call' = [NoCall EXCEPT !.op = "renderTarget", !.ret = tgt_]
    /\ tgt_' = tgt_
    /\ SensorFrame

NextSensor ==
    \/ hasRenderTarget
    \/ bindRenderTarget
    \/ renderTarget

SpecSensor == InitSensor /\ [][NextSensor]_vars

\* C21: bindRenderTarget(t) returns normally exactly when t's framebuffer
\* size is (resolution[1], resolution[0]) of the sensor's spec, and then t is
\* the bound target; otherwise it throws and the bound target (or the absence
\* of one) is as before.  hasRenderTarget() tells whether a target is bound,
\* a bound target always has the sensor's framebuffer size, and
\* renderTarget() throws exactly when no target is bound and otherwise
\* returns the bound one.
C21_BindChecksFramebufferSize ==
    [][ LET resolution == Deref(spec_).resolution
            t == call'.arg[1]
        IN /\ call'.op = "bindRenderTarget" =>
                /\ ~call'.threw <=> t.size = << resolution[2], resolution[1] >>
                /\ call'.threw => tgt_' = tgt_
                /\ ~call'.threw => tgt_' = << t >>
           /\ call'.op = "hasRenderTarget" =>
                /\ ~call'.threw
                /\ call'.ret = << tgt_ # Null >>
                /\ tgt_' = tgt_
           /\ call'.op = "renderTarget" =>
                /\ call'.threw <=> tgt_ = Null
                /\ ~call'.threw => call'.ret = tgt_
                /\ tgt_' = tgt_
           /\ tgt_' # Null =>
                tgt_'[1].size = << resolution[2], resolution[1] >>
           /\ spec_' = spec_
      ]_vars

\* a sensor of a non-square resolution holding a target refused a later
\* target of the unswapped size and kept the one it had
C21_Witness ==
    /\ call.op = "bindRenderTarget"
    /\ call.threw
    /\ tgt_ # Null
    /\ Deref(spec_).resolution = << 1, 2 >>
    /\ call.arg[1].size = << 1, 2 >>
    /\ Deref(tgt_).size = << 2, 1 >>
    /\ Deref(tgt_).id < call.arg[1].id

\* ========================================================== depth unprojection
\* DepthUnprojection.cpp.  A Float is modelled by the exact value << n, d >>
\* of the fraction n/d in lowest terms with d > 0; the results of a division
\* by zero are << 1, 0 >> (+inf), << -1, 0 >> (-inf) and << 0, 0 >> (NaN).
\* Rounding is not modelled.
MaxLen == 2
MaxMagnitude == 4

Abs(n) == IF n < 0 THEN -n ELSE n
Sign(n) == IF n < 0 THEN -1 ELSE IF n > 0 THEN 1 ELSE 0

RECURSIVE Gcd(_, _)
Gcd(a, b) == IF b = 0 THEN a ELSE Gcd(b, a % b)

\* the Float n/d, for d >= 0
Float(n, d) ==
    IF d = 0 THEN << Sign(n), 0 >>
    ELSE << n \div Gcd(Abs(n), d), d \div Gcd(Abs(n), d) >>

Zero == Float(0, 1)
Half == Float(1, 2)
One == Float(1, 1)

IsFinite(x) == x[2] > 0

\* x + y, x - y, x * y of finite Floats
FAdd(x, y) == Float(x[1] * y[2] + y[1] * x[2], x[2] * y[2])
FSub(x, y) == Float(x[1] * y[2] - y[1] * x[2], x[2] * y[2])
FMul(x, y) == Float(x[1] * y[1], x[2] * y[2])

\* x / y of finite Floats; a sum or difference that is zero is +0, so a
\* zero divisor gives the infinity of the sign of x, and NaN when x is zero
FDiv(x, y) ==
    IF y[1] = 0 THEN << Sign(x[1]), 0 >>
    ELSE Float(Sign(y[1]) * x[1] * y[2], x[2] * Abs(y[1]))

\* a comparison of the depth with the clear value within a tolerance of 0.5
IsClearValue_Epsilon(d) == IsFinite(d) /\ Abs(d[1] - d[2]) * 2 <= d[2]

\* depth[i] == 1.0f
IsClearValue(d) == d = One

\* Mn::Vector2 calculateDepthUnprojection(const Mn::Matrix4& projectionMatrix):
\* Vector2{(projectionMatrix[2][2] - 1.0f), projectionMatrix[3][2]} * 0.5f
calculateDepthUnprojection(P) ==
    << FMul(FSub(P.m22, One), Half), FMul(P.m32, Half) >>

\* void unprojectDepth(unprojection, depth): the buffer after the loop, which
\* visits every index once and reads and writes depth[i] only
unprojectDepth(u, buffer) ==
    [i \in 1 .. Len(buffer) |->
        IF IsClearValue(buffer[i]) THEN Zero
        ELSE FDiv(u[2], FAdd(buffer[i], u[1]))]

\* the two entries of the projection matrix that are read, and raw depths
Entries22 == { Float(3, 1), Float(1, 1), Float(0, 1), Float(-1, 1) }
Entries32 == { Float(4, 1), Float(0, 1), Float(-2, 1) }
ProjectionMatrices == { [m22 |-> x, m32 |-> y] : x \in Entries22, y \in Entries32 }
RawDepths == { Zero, Half, One }
RECURSIVE Buffers(_)
Buffers(n) ==
    IF n = 0 THEN { << >> }
    ELSE Buffers(n - 1) \cup
         { Append(b, d) : b \in { c \in Buffers(n - 1) : Len(c) = n - 1 },
                          d \in RawDepths }

\* every element is finite and of a magnitude the model follows further
Small(buffer) ==
    \A i \in 1 .. Len(buffer) :
       /\ IsFinite(buffer[i])
       /\ Abs(buffer[i][1]) <= MaxMagnitude
       /\ buffer[i][2] <= MaxMagnitude

\* a projection matrix and a depth buffer as read back, nothing computed yet
InitDepth ==
    /\ SimInit
    /\ NoSensor
    /\ projectionMatrix \in ProjectionMatrices
    /\ unprojection = << >>
    /\ depth \in Buffers(MaxLen)

DepthFrame == UNCHANGED << simVars, physicsManager_, life, sensorVars,
                           projectionMatrix >>

\* unprojection = calculateDepthUnprojection(projectionMatrix)
CallCalculateDepthUnprojection ==
    /\ call' = [NoCall EXCEPT !.op = "calculateDepthUnprojection",
                              !.arg = << projectionMatrix >>]
    /\ unprojection' = calculateDepthUnprojection(projectionMatrix)
    /\ depth' = depth
    /\ DepthFrame

\* unprojectDepth(unprojection, depth), in place
CallUnprojectDepth ==
    /\ unprojection # << >>
    /\ Small(depth)
    /\ call' = [NoCall EXCEPT !.op = "unprojectDepth",
                              !.arg = << unprojection, depth >>]
    /\ depth' = unprojectDepth(unprojection, depth)
    /\ unprojection' = unprojection
    /\ DepthFrame

NextDepth ==
    \/ CallCalculateDepthUnprojection
    \/ CallUnprojectDepth

SpecDepth == InitDepth /\ [][NextDepth]_vars

\* C22: calculateDepthUnprojection(P) is (a, b) with a = (P[2][2] - 1) / 2 and
\* b = P[3][2] / 2, so (1, 2) for P[2][2] = 3 and P[3][2] = 4; and
\* unprojectDepth((a, b), buffer) keeps the length of the buffer and puts at
\* every index 0 where the element was exactly 1 and b / (d + a) where it was
\* another d, whatever the other elements are: 2 / 1.5 = 4/3 for d = 0.5
\* under (1, 2).
C22_DepthUnprojectionFormula ==
    [][ LET a == unprojection[1]
            b == unprojection[2]
        IN /\ call'.op = "calculateDepthUnprojection" =>
                /\ unprojection'[1][1] * 2 * projectionMatrix.m22[2]
                     = unprojection'[1][2]
                         * (projectionMatrix.m22[1] - projectionMatrix.m22[2])
                /\ unprojection'[2][1] * 2 * projectionMatrix.m32[2]
                     = unprojection'[2][2] * projectionMatrix.m32[1]
                /\ (projectionMatrix.m22 = << 3, 1 >>
                    /\ projectionMatrix.m32 = << 4, 1 >>)
                      => unprojection' = << << 1, 1 >>, << 2, 1 >> >>
                /\ depth' = depth
           /\ call'.op = "unprojectDepth" =>
                /\ Len(depth') = Len(depth)
                /\ unprojection' = unprojection
                /\ \A i \in 1 .. Len(depth) :
                     LET d == depth[i]
                         r == depth'[i]
                         \* d + a as the fraction num/den, den > 0
                         num == d[1] * a[2] + a[1] * d[2]
                         den == d[2] * a[2]
                     IN /\ d = << 1, 1 >> => r = << 0, 1 >>
                        /\ (d # << 1, 1 >> /\ num # 0) =>
                              /\ r[2] > 0
                              /\ r[1] * b[2] * num = r[2] * b[1] * den
                        /\ (d # << 1, 1 >> /\ num = 0) =>
                              r = << Sign(b[1]), 0 >>
                        /\ (d = << 1, 2 >> /\ a = << 1, 1 >> /\ b = << 2, 1 >>)
                              => r = << 4, 3 >>
      ]_vars

\* the example of the claim: under (1, 2), computed from P[2][2] = 3 and
\* P[3][2] = 4, the buffer (0.5, 1) has become (4/3, 0)
C22_Witness ==
    /\ call.op = "unprojectDepth"
    /\ projectionMatrix = [m22 |-> << 3, 1 >>, m32 |-> << 4, 1 >>]
    /\ unprojection = << << 1, 1 >>, << 2, 1 >> >>
    /\ call.arg[2] = << << 1, 2 >>, << 1, 1 >> >>
    /\ depth = << << 4, 3 >>, << 0, 1 >> >>

\* what only reconfigure assigns; of the physics world, whether one is bound
ConfiguredState ==
    << config_, activeSceneID_, activeSemanticSceneID_, sceneID_, context_,
       renderer_, semanticScene_, physicsManager_ # Null >>

\* C31: the object-addressing functions, stepWorld, getWorldTime and seed
\* leave the stored configuration, the active scene graph id, the active
\* semantic scene graph id, the list of graph ids, the context, the renderer
\* and the semantic scene as they were, and bind or unbind no physics world;
\* a step that changes any of these is a reconfigure, called directly or by
\* the constructor.
C31_OnlyReconfigureChangesConfiguredState ==
    [][ /\ call'.op \in FacadeOps \cup { "stepWorld", "getWorldTime", "seed" }
            => ConfiguredState' = ConfiguredState
        /\ ConfiguredState' # ConfiguredState => call'.op \in ReconfigureOps
      ]_vars

\* the world of a simulator with a renderer, a context and a semantic graph of
\* its own has been stepped after an object was added to it
C31_Witness ==
    /\ call.op = "stepWorld"
    /\ call.fwd # << >>
    /\ call.ret > NO_TIME
    /\ ExistingObjectIDs(Deref(physicsManager_)) # { }
    /\ renderer_ # Null
    /\ context_ # Null
    /\ activeSemanticSceneID_ \notin { ID_UNDEFINED, activeSceneID_ }

\* what the physics world does, and answers, when op is called on it for
\* objectID with the arguments arg: no scene id takes part in it
PhysicsCall(op, w, objectID, arg) ==
    CASE op = "removeObject" ->
           [world |-> PhysRemoveObject(w, objectID), ret |-> NoCall.ret]
      [] op = "setTransformation" ->
           [world |-> PhysSetTransformation(w, objectID, arg[1]),
            ret |-> NoCall.ret]
      [] op = "setTranslation" ->
           [world |-> PhysSetTranslation(w, objectID, arg[1]),
            ret |-> NoCall.ret]
      [] op = "setRotation" ->
           [world |-> PhysSetRotation(w, objectID, arg[1]), ret |-> NoCall.ret]
      [] op = "getExistingObjectIDs" ->
           [world |-> w, ret |-> ExistingObjectIDs(w)]
      [] op = "getTransformation" ->
           [world |-> w, ret |-> PhysGetTransformation(w, objectID)]
      [] op = "getTranslation" ->
           [world |-> w, ret |-> PhysGetTranslation(w, objectID)]
      [] op = "getRotation" ->
           [world |-> w, ret |-> PhysGetRotation(w, objectID)]
      [] OTHER -> [world |-> w, ret |-> NoCall.ret]

\* C32: with a physics world bound and the scene id in range, what an
\* object-addressing function other than addObject forwards, returns and
\* leaves behind is determined by the prior state, the object id and the other
\* arguments, so two in-range scene ids give the same forwarded call, result
\* and state: a query repeated with another in-range scene id answers the
\* same.  For addObject the scene id is also part of what is handed to the
\* physics world (the drawables of that graph).
C32_SceneIdIsOnlyARangeGuard ==
    [][ /\ (call'.op \in FacadeOps \ { "addObject" } /\ Accepted(call'.sceneID))
            => LET r == PhysicsCall(call'.op, Deref(physicsManager_),
                                    call'.objectID, call'.arg)
               IN /\ ~call'.threw
                  /\ call'.fwd = Forward(call'.op, call'.objectID, call'.arg)
                  /\ physicsManager_' = Ptr(r.world)
                  /\ call'.ret = r.ret
                  /\ UNCHANGED << life, config_, sceneManager_, sceneID_,
                                  activeSceneID_, activeSemanticSceneID_,
                                  context_, renderer_, semanticScene_, random_ >>
        /\ (/\ call'.op \in { "getExistingObjectIDs", "getTransformation",
                              "getTranslation", "getRotation" }
            /\ call.op = call'.op
            /\ call.objectID = call'.objectID
            /\ Accepted(call.sceneID)
            /\ Accepted(call'.sceneID))
            => /\ call'.ret = call.ret
               /\ call'.fwd = call.fwd
               /\ physicsManager_' = physicsManager_
        /\ (call'.op = "addObject" /\ Accepted(call'.sceneID))
            => /\ call'.fwd = Forward("addObject", ID_UNDEFINED,
                                      call'.arg \o << call'.sceneID >>)
               /\ physicsManager_' =
                    Ptr(PhysAddObject(Deref(physicsManager_), call'.arg[1],
                                      call'.sceneID)[1])
      ]_vars

\* with the ids of three graphs in range, the translation of an existing
\* object was read back under the id of a graph that is not the active one
C32_Witness ==
    /\ call.op = "getTranslation"
    /\ Len(call.fwd) = 1
    /\ Len(sceneID_) = 3
    /\ call.sceneID = 2
    /\ activeSceneID_ # 2
    /\ Exists(Deref(physicsManager_), call.objectID)
    /\ call.ret # ZeroVec

====
